---- MODULE Spec2Model ----
(***************************************************************************)
(* A model of factorio-file-parser (src/src/schema.rs): the Deserialiser   *)
(* and Serialiser primitives, the PropertyTree codec, and the ModSettings  *)
(* and SaveHeader record parsers.                                          *)
(*                                                                         *)
(* Representation of the Rust values:                                      *)
(*   u8, u16, usize  a natural number                                      *)
(*   u32             [lo, hi]: its two 16-bit halves (value lo + 2^16*hi)  *)
(*   u64             <<l0, l1, l2, l3>>: its four 16-bit limbs, l0 lowest  *)
(*   f64             its 8 bytes, most significant first                   *)
(*   String, &[u8]   a sequence of bytes                                   *)
(*   Result<T>       [tag |-> "Ok", val, rest], [tag |-> "Err", err, msg], *)
(*                   and, for the two ways a call can end without          *)
(*                   returning, [tag |-> "Panic"] and [tag |-> "Abort"]    *)
(***************************************************************************)
EXTENDS Integers, Sequences, FiniteSets, TLC

VARIABLES
    heap,        \* the allocator's state: "ample" or "scarce"
    input,       \* the byte buffer the caller hands to a decoder
    phase,       \* where the caller is: "ready", "decoded", "encoded", "unit"
    ms,          \* the result of the last ModSettings::try_from
    sh,          \* the result of the last SaveHeader::try_from
    hist,        \* the (ModSettings, bytes) pairs of the finished decode/encode cycles
    base,        \* the accepted buffer that trailing bytes were appended to, or <<>>
    byte_slice,  \* Deserialiser.byte_slice
    last,        \* the last Deserialiser operation called and its result
    bytes,       \* Serialiser.bytes
    arg,         \* the value handed to the last Serialiser operation
    run          \* a decode followed call by call and iteration by iteration

vars == <<heap, input, phase, ms, sh, hist, base, byte_slice, last, bytes, arg, run>>

(***************************************************************************)
(* Results                                                                 *)
(***************************************************************************)
Ok(v, rest) == [tag |-> "Ok", val |-> v, rest |-> rest]

Err(e) == [tag |-> "Err", err |-> e, msg |-> ""]

Syntax(m) == [tag |-> "Err", err |-> "Syntax", msg |-> m]

Panic == [tag |-> "Panic"]

Abort == [tag |-> "Abort"]

NoResult == [tag |-> "None"]

\* What a decoder returns to its caller: the value without the cursor.
Returned(v) == [tag |-> "Ok", val |-> v]

(***************************************************************************)
(* Integers                                                                *)
(***************************************************************************)
U32(lo, hi) == [lo |-> lo, hi |-> hi]

\* u16::from_le_bytes
u16_from_le_bytes(a) == a[1] + 256 * a[2]

\* u32::from_le_bytes
u32_from_le_bytes(a) == U32(a[1] + 256 * a[2], a[3] + 256 * a[4])

\* f64::from_le_bytes: the bit pattern, most significant byte first
f64_from_le_bytes(a) == [i \in 1..8 |-> a[9 - i]]

\* u16::to_le_bytes
u16_to_le_bytes(v) == <<v % 256, v \div 256>>

\* u32::to_le_bytes
u32_to_le_bytes(v) == <<v.lo % 256, v.lo \div 256, v.hi % 256, v.hi \div 256>>

\* f64::to_le_bytes
f64_to_le_bytes(d) == [i \in 1..8 |-> d[9 - i]]

\* `n as u32` of a usize
usize_as_u32(n) == U32(n % 65536, (n \div 65536) % 65536)

\* `b as u32` of a u8
u8_as_u32(b) == U32(b, 0)

\* i < len, for a loop counter i and a u32 len
LessThanU32(i, len) == len.hi > 0 \/ i < len.lo

RECURSIVE BitOr(_, _)
BitOr(a, b) ==
    IF a = 0 THEN b
    ELSE IF b = 0 THEN a
    ELSE (IF a % 2 = 1 \/ b % 2 = 1 THEN 1 ELSE 0) + 2 * BitOr(a \div 2, b \div 2)

\* `v as u64` of a u16
u16_as_u64(v) == <<v, 0, 0, 0>>

\* x << n on a u64, n a multiple of 16
Shl64(x, n) == [i \in 1..4 |-> IF i - n \div 16 >= 1 THEN x[i - n \div 16] ELSE 0]

\* x >> n on a u64, n a multiple of 16
Shr64(x, n) == [i \in 1..4 |-> IF i + n \div 16 <= 4 THEN x[i + n \div 16] ELSE 0]

\* x | y on a u64
Or64(x, y) == [i \in 1..4 |-> BitOr(x[i], y[i])]

\* `x as u16` of a u64
u64_as_u16(x) == x[1]

(***************************************************************************)
(* std::str::from_utf8: whether the bytes are well-formed UTF-8            *)
(***************************************************************************)
IsCont(b) == b >= 128 /\ b <= 191

\* The length of the character a byte starts: 0 for a byte that starts none
Utf8CharWidth(b) ==
    IF b < 128 THEN 1
    ELSE IF b >= 194 /\ b <= 223 THEN 2
    ELSE IF b >= 224 /\ b <= 239 THEN 3
    ELSE IF b >= 240 /\ b <= 244 THEN 4
    ELSE 0

\* Every leading byte is followed by its continuation bytes, the first of them in
\* the range its leading byte allows, and every continuation byte belongs to a
\* leading byte
Utf8Valid(s) ==
    \A i \in 1..Len(s) :
        LET b == s[i]
            w == Utf8CharWidth(b)
        IN  IF IsCont(b)
            THEN \E k \in 1..3 :
                    /\ i - k >= 1
                    /\ Utf8CharWidth(s[i - k]) > k
                    /\ \A j \in 1..(k - 1) : IsCont(s[i - j])
            ELSE /\ w >= 1
                 /\ i + w - 1 <= Len(s)
                 /\ \A j \in 1..(w - 1) : IsCont(s[i + j])
                 /\ (b = 224 => s[i + 1] >= 160)
                 /\ (b = 237 => s[i + 1] <= 159)
                 /\ (b = 240 => s[i + 1] >= 144)
                 /\ (b = 244 => s[i + 1] <= 143)

(***************************************************************************)
(* Slices and allocation                                                   *)
(***************************************************************************)
\* &s[0..n]: indexing past the end of a slice panics
SliceTo(s, n) == IF n > Len(s) THEN Panic ELSE Ok(SubSeq(s, 1, n), s)

\* &s[0..len as usize] for a u32 len (a slice is shorter than 2^16 bytes here)
SliceToU32(s, len) == IF len.hi > 0 THEN Panic ELSE SliceTo(s, len.lo)

\* &s[n..]
SliceFrom(s, n) == SubSeq(s, n + 1, Len(s))

\* <[u8; n]>::try_from(&[u8])
TryIntoArray(sl, n) == IF Len(sl) = n THEN Ok(sl, <<>>) ELSE Err("ByteSlicingError")

\* The capacity, in units of 2^16 elements, from which a scarce heap refuses a
\* Vec::with_capacity request
AllocLimitHi == 1024

\* Vec::with_capacity(len as usize): whether the allocation is granted
VecWithCapacity(len) == heap = "ample" \/ len.hi < AllocLimitHi

(***************************************************************************)
(* Deserialiser: every operation takes the remaining slice and returns a   *)
(* Result whose rest is the slice left after it.                           *)
(***************************************************************************)
\* peek_u8 that reports the end one byte early
peek_u8_early(s) == IF Len(s) <= 1 THEN Err("Eof") ELSE Ok(s[1], s)

peek_u8(s) == IF s = <<>> THEN Err("Eof") ELSE Ok(s[1], s)

next_u8(s) ==
    LET b == peek_u8(s)
    IN  IF b.tag # "Ok" THEN b ELSE Ok(b.val, SliceFrom(s, 1))

next_u16(s) ==
    LET sl == SliceTo(s, 2)
    IN  IF sl.tag # "Ok" THEN sl
        ELSE LET a == TryIntoArray(sl.val, 2)
             IN  IF a.tag # "Ok" THEN a
                 ELSE Ok(u16_from_le_bytes(a.val), SliceFrom(s, 2))

\* next_u16_optim that reads the 16 bits from where the sentinel is
next_u16_optim_unread(s) ==
    LET byte == next_u8(s)
    IN  IF byte.tag # "Ok" THEN byte
        ELSE IF byte.val # 255 THEN Ok(byte.val, byte.rest)
        ELSE next_u16(s)

next_u16_optim(s) ==
    LET byte == next_u8(s)
    IN  IF byte.tag # "Ok" THEN byte
        ELSE IF byte.val # 255 THEN Ok(byte.val, byte.rest)
        ELSE next_u16(byte.rest)

next_u32(s) ==
    LET sl == SliceTo(s, 4)
    IN  IF sl.tag # "Ok" THEN sl
        ELSE LET a == TryIntoArray(sl.val, 4)
             IN  IF a.tag # "Ok" THEN a
                 ELSE Ok(u32_from_le_bytes(a.val), SliceFrom(s, 4))

next_u32_optim(s) ==
    LET so_byte == next_u8(s)
    IN  IF so_byte.tag # "Ok" THEN so_byte
        ELSE IF so_byte.val # 255 THEN Ok(u8_as_u32(so_byte.val), so_byte.rest)
        ELSE next_u32(so_byte.rest)

\* The ? operator: an error, a panic or an abort ends the caller with it;
\* otherwise the caller goes on with the result
AndThen(r, K(_)) == IF r.tag # "Ok" THEN r ELSE K(r)

parse_bool(s) == AndThen(next_u8(s), LAMBDA b : Ok(b.val # 0, b.rest))

parse_double(s) ==
    AndThen(SliceTo(s, 8), LAMBDA sl :
    AndThen(TryIntoArray(sl.val, 8), LAMBDA a :
        Ok(f64_from_le_bytes(a.val), SliceFrom(s, 8))))

\* The else branch of _parse_string: the length, the slice, the UTF-8 check
parse_string_body(s) ==
    AndThen(next_u32_optim(s), LAMBDA len :
    AndThen(SliceToU32(len.rest, len.val), LAMBDA sl :
        IF ~Utf8Valid(sl.val) THEN Err("Utf8")
        ELSE Ok(sl.val, SliceFrom(len.rest, len.val.lo))))

_parse_string(s, has_empty_indicator) ==
    IF has_empty_indicator
    THEN AndThen(parse_bool(s), LAMBDA e :
             IF e.val THEN Ok(<<>>, e.rest) ELSE parse_string_body(e.rest))
    ELSE parse_string_body(s)

parse_string(s) == _parse_string(s, TRUE)

parse_string_saveheader(s) == _parse_string(s, FALSE)

parse_version(s) ==
    AndThen(next_u16(s), LAMBDA main :
    AndThen(next_u16(main.rest), LAMBDA major :
    AndThen(next_u16(major.rest), LAMBDA minor :
    AndThen(next_u16(minor.rest), LAMBDA developer :
        Ok([main |-> main.val, major |-> major.val, minor |-> minor.val,
            developer |-> developer.val], developer.rest)))))

parse_version48(s) ==
    AndThen(next_u16_optim(s), LAMBDA main :
    AndThen(next_u16_optim(main.rest), LAMBDA major :
    AndThen(next_u16_optim(major.rest), LAMBDA minor :
        Ok([main |-> main.val, major |-> major.val, minor |-> minor.val],
           minor.rest))))

(***************************************************************************)
(* PropertyTree and PropertyTreeType                                       *)
(***************************************************************************)
PT_None == [t |-> "None"]

PT_Bool(b) == [t |-> "Bool", b |-> b]

PT_Number(d) == [t |-> "Number", d |-> d]

PT_String(s) == [t |-> "String", s |-> s]

PT_List(items) == [t |-> "List", items |-> items]

PT_Dictionary(pairs) == [t |-> "Dictionary", pairs |-> pairs]

\* impl TryFrom<u8> for PropertyTreeType
PropertyTreeType_try_from(value) ==
    CASE value = 0 -> Ok("None", <<>>)
      [] value = 1 -> Ok("Bool", <<>>)
      [] value = 2 -> Ok("Number", <<>>)
      [] value = 3 -> Ok("String", <<>>)
      [] value = 4 -> Ok("List", <<>>)
      [] value = 5 -> Ok("Dictionary", <<>>)
      [] OTHER -> Err("OutOfRange")

\* impl TryFrom<PropertyTreeType> for u8
u8_try_from(value) ==
    CASE value = "None" -> 0
      [] value = "Bool" -> 1
      [] value = "Number" -> 2
      [] value = "String" -> 3
      [] value = "List" -> 4
      [] value = "Dictionary" -> 5

RECURSIVE parse_property_tree(_)
RECURSIVE parse_list_items(_, _, _, _)
RECURSIVE parse_dict_items(_, _, _, _)

\* The List arm's loop, for _ in 0..len, from iteration i on
parse_list_items(s, len, i, list) ==
    IF ~LessThanU32(i, len) THEN Ok(PT_List(list), s)
    ELSE AndThen(parse_string(s), LAMBDA label :
         AndThen(parse_property_tree(label.rest), LAMBDA item :
             parse_list_items(item.rest, len, i + 1, Append(list, item.val))))

\* The Dictionary arm's loop, for _ in 0..len, from iteration i on
parse_dict_items(s, len, i, dict) ==
    IF ~LessThanU32(i, len) THEN Ok(PT_Dictionary(dict), s)
    ELSE AndThen(parse_string(s), LAMBDA key :
         AndThen(parse_property_tree(key.rest), LAMBDA value :
             parse_dict_items(value.rest, len, i + 1,
                              Append(dict, <<key.val, value.val>>))))

\* The arms of the match in parse_property_tree, on the slice d after the flag
parse_property_tree_arm(type, d) ==
    CASE type = "None" -> Ok(PT_None, d)
      [] type = "Bool" ->
           AndThen(parse_bool(d), LAMBDA b : Ok(PT_Bool(b.val), b.rest))
      [] type = "Number" ->
           AndThen(parse_double(d), LAMBDA n : Ok(PT_Number(n.val), n.rest))
      [] type = "String" ->
           AndThen(parse_string(d), LAMBDA str : Ok(PT_String(str.val), str.rest))
      [] type = "List" ->
           AndThen(next_u32(d), LAMBDA len :
               IF ~VecWithCapacity(len.val) THEN Abort
               ELSE parse_list_items(len.rest, len.val, 0, <<>>))
      [] type = "Dictionary" ->
           AndThen(next_u32(d), LAMBDA len :
               IF ~VecWithCapacity(len.val) THEN Abort
               ELSE parse_dict_items(len.rest, len.val, 0, <<>>))

parse_property_tree(s) ==
    AndThen(next_u8(s), LAMBDA type_u8 :
    AndThen(parse_bool(type_u8.rest), LAMBDA flag :
    AndThen(PropertyTreeType_try_from(type_u8.val), LAMBDA type :
        parse_property_tree_arm(type.val, flag.rest))))

(***************************************************************************)
(* Serialiser: every operation takes Serialiser.bytes and returns it with  *)
(* what the operation wrote appended.                                      *)
(***************************************************************************)
write_u8(bs, value) == Append(bs, value)

write_u16(bs, value) == bs \o u16_to_le_bytes(value)

write_u32(bs, value) == bs \o u32_to_le_bytes(value)

write_bool(bs, value) == write_u8(bs, IF value THEN 1 ELSE 0)

\* write_double with the bytes in big-endian order
write_double_be(bs, value) == bs \o value

write_double(bs, value) == bs \o f64_to_le_bytes(value)

write_version(bs, version) ==
    LET main_version == u64_as_u16(Shr64(version, 48))
        b1 == write_u16(bs, main_version)
        major_version == u64_as_u16(Shr64(version, 32))
        b2 == write_u16(b1, major_version)
        minor_version == u64_as_u16(Shr64(version, 16))
        b3 == write_u16(b2, minor_version)
        developer_version == u64_as_u16(version)
    IN  write_u16(b3, developer_version)

\* write_string that takes the one-byte form up to and including 255
write_string_255(bs, value) ==
    IF value = <<>>
    THEN write_bool(bs, TRUE)
    ELSE LET b1 == write_bool(bs, FALSE)
             b2 == IF Len(value) <= 255
                   THEN write_u8(b1, Len(value))
                   ELSE write_u32(write_u8(b1, 255), usize_as_u32(Len(value)))
         IN  b2 \o value

write_string(bs, value) ==
    IF value = <<>>
    THEN write_bool(bs, TRUE)
    ELSE LET b1 == write_bool(bs, FALSE)
             b2 == IF Len(value) < 255
                   THEN write_u8(b1, Len(value))
                   ELSE write_u32(write_u8(b1, 255), usize_as_u32(Len(value)))
         IN  b2 \o value

RECURSIVE write_property_tree(_, _)
RECURSIVE write_list_items(_, _, _)
RECURSIVE write_dict_items(_, _, _)

RECURSIVE write_list_items_unlabelled(_, _, _)
\* The List arm's loop without the write_string(String::new()) of each element
write_list_items_unlabelled(bs, list, i) ==
    IF i > Len(list) THEN bs
    ELSE write_list_items_unlabelled(write_property_tree(bs, list[i]), list, i + 1)

\* The List arm's loop, for item in list, from element i on
write_list_items(bs, list, i) ==
    IF i > Len(list) THEN bs
    ELSE write_list_items(write_property_tree(write_string(bs, <<>>), list[i]), list, i + 1)

\* The Dictionary arm's loop, for (k, v) in dict, from pair i on
write_dict_items(bs, dict, i) ==
    IF i > Len(dict) THEN bs
    ELSE write_dict_items(write_property_tree(write_string(bs, dict[i][1]), dict[i][2]),
                          dict, i + 1)

write_property_tree(bs, value) ==
    LET head == write_bool(write_u8(bs, u8_try_from(value.t)), FALSE)
    IN  CASE value.t = "None" -> head
          [] value.t = "Bool" -> write_bool(head, value.b)
          [] value.t = "Number" -> write_double(head, value.d)
          [] value.t = "String" -> write_string(head, value.s)
          [] value.t = "List" ->
               write_list_items(write_u32(head, usize_as_u32(Len(value.items))),
                                value.items, 1)
          [] value.t = "Dictionary" ->
               write_dict_items(write_u32(head, usize_as_u32(Len(value.pairs))),
                                value.pairs, 1)

(***************************************************************************)
(* Version                                                                 *)
(***************************************************************************)
\* u64::from with the shifts of minor and major exchanged
u64_from_Version_swapped(value) ==
    Or64(Or64(Or64(u16_as_u64(value.developer),
                   Shl64(u16_as_u64(value.minor), 32)),
              Shl64(u16_as_u64(value.major), 16)),
         Shl64(u16_as_u64(value.main), 48))

\* impl From<Version> for u64
u64_from_Version(value) ==
    Or64(Or64(Or64(u16_as_u64(value.developer),
                   Shl64(u16_as_u64(value.minor), 16)),
              Shl64(u16_as_u64(value.major), 32)),
         Shl64(u16_as_u64(value.main), 48))

(***************************************************************************)
(* ModSettings                                                             *)
(***************************************************************************)
\* "startup"
KeyStartup == <<115, 116, 97, 114, 116, 117, 112>>

\* "runtime-global"
KeyRuntimeGlobal == <<114, 117, 110, 116, 105, 109, 101, 45, 103, 108, 111, 98, 97, 108>>

\* "runtime-per-user"
KeyRuntimePerUser ==
    <<114, 117, 110, 116, 105, 109, 101, 45, 112, 101, 114, 45, 117, 115, 101, 114>>

\* A collect that keeps the first pair of a key
HashMapCollect_first(dict) ==
    [k \in {dict[i][1] : i \in 1..Len(dict)} |->
        LET at == CHOOSE i \in 1..Len(dict) :
                      /\ dict[i][1] = k
                      /\ \A j \in 1..(i - 1) : dict[j][1] # k
        IN  dict[at][2]]

\* dict.into_iter().collect::<HashMap<_, _>>(): a later pair replaces an earlier
\* one with the same key
HashMapCollect(dict) ==
    [k \in {dict[i][1] : i \in 1..Len(dict)} |->
        LET at == CHOOSE i \in 1..Len(dict) :
                      /\ dict[i][1] = k
                      /\ \A j \in (i + 1)..Len(dict) : dict[j][1] # k
        IN  dict[at][2]]

\* HashMap::remove followed by unwrap_or(PropertyTree::None)
HashMapRemove_or_default(map, key) ==
    IF key \in DOMAIN map
    THEN [some |-> TRUE, v |-> map[key], map |-> [k \in DOMAIN map \ {key} |-> map[k]]]
    ELSE [some |-> TRUE, v |-> PT_None, map |-> map]

\* HashMap::remove: the value taken out, if the key is there
HashMapRemove(map, key) ==
    IF key \in DOMAIN map
    THEN [some |-> TRUE, v |-> map[key], map |-> [k \in DOMAIN map \ {key} |-> map[k]]]
    ELSE [some |-> FALSE, map |-> map]

\* ModSettings::try_from from the match on the parsed tree to its end
ModSettings_from_tree(version, tree) ==
    IF tree.val.t # "Dictionary"
    THEN Syntax("Top-level PropertyTree not dictionary type") ELSE
    LET dict == HashMapCollect(tree.val.pairs)
        startup == HashMapRemove(dict, KeyStartup)
    IN  IF ~startup.some THEN Syntax("Settings section 'startup' missing") ELSE
    LET runtime_global == HashMapRemove(startup.map, KeyRuntimeGlobal)
    IN  IF ~runtime_global.some
        THEN Syntax("Settings section 'runtime-global' missing") ELSE
    LET runtime_per_user == HashMapRemove(runtime_global.map, KeyRuntimePerUser)
    IN  IF ~runtime_per_user.some
        THEN Syntax("Settings section 'runtime-per-user' missing") ELSE
        IF peek_u8(tree.rest) = Err("Eof")
        THEN Returned([version |-> version,
                       startup |-> startup.v,
                       runtime_global |-> runtime_global.v,
                       runtime_per_user |-> runtime_per_user.v])
        ELSE Err("TrailingBytes")

\* impl TryFrom<&[u8]> for ModSettings
ModSettings_try_from(in) ==
    AndThen(parse_version(in), LAMBDA version :
    AndThen(parse_bool(version.rest), LAMBDA false_sentinel :
        IF false_sentinel.val
        THEN Syntax("After-version sentinel expected to be false, got true")
        ELSE AndThen(parse_property_tree(false_sentinel.rest), LAMBDA tree :
                 ModSettings_from_tree(version.val, tree))))

\* try_into that pushes runtime-global before startup
ModSettings_try_into_reordered(self) ==
    LET s1 == write_version(<<>>, u64_from_Version(self.version))
        s2 == write_bool(s1, FALSE)
        dict == << <<KeyRuntimeGlobal, self.runtime_global>>,
                   <<KeyStartup, self.startup>>,
                   <<KeyRuntimePerUser, self.runtime_per_user>> >>
        top_level == PT_Dictionary(dict)
    IN  Returned(write_property_tree(s2, top_level))

\* impl TryInto<Vec<u8>> for ModSettings
ModSettings_try_into(self) ==
    LET s1 == write_version(<<>>, u64_from_Version(self.version))
        s2 == write_bool(s1, FALSE)
        dict == << <<KeyStartup, self.startup>>,
                   <<KeyRuntimeGlobal, self.runtime_global>>,
                   <<KeyRuntimePerUser, self.runtime_per_user>> >>
        top_level == PT_Dictionary(dict)
    IN  Returned(write_property_tree(s2, top_level))

(***************************************************************************)
(* SaveHeader                                                              *)
(***************************************************************************)
Build16(v) == [tag |-> "Build16", v |-> v]

Build32(v) == [tag |-> "Build32", v |-> v]

\* skip_bytes that skips three bytes
RECURSIVE skip_bytes_three(_, _)
skip_bytes_three(s, i) ==
    IF i >= 3 THEN Ok(<<>>, s)
    ELSE AndThen(next_u8(s), LAMBDA b : skip_bytes_three(b.rest, i + 1))

\* The four bytes that follow allowed_commands since 2.0: for _ in 0..4, from
\* iteration i on
RECURSIVE skip_bytes(_, _)
skip_bytes(s, i) ==
    IF i >= 4 THEN Ok(<<>>, s)
    ELSE AndThen(next_u8(s), LAMBDA b : skip_bytes(b.rest, i + 1))

\* The mod loop, for _ in 0..num_mods, from iteration i on
RECURSIVE parse_mods(_, _, _, _)
parse_mods(s, num_mods, i, mods) ==
    IF ~LessThanU32(i, num_mods) THEN Ok(mods, s)
    ELSE AndThen(parse_string_saveheader(s), LAMBDA name :
         AndThen(parse_version48(name.rest), LAMBDA version :
         AndThen(next_u32(version.rest), LAMBDA crc :
             parse_mods(crc.rest, num_mods, i + 1,
                        Append(mods, [name |-> name.val, version |-> version.val,
                                      crc |-> crc.val])))))

\* let name = d.op()?: the fields read so far, with the next one
Field(h, name, Op(_)) ==
    AndThen(h, LAMBDA sofar :
    AndThen(Op(sofar.rest), LAMBDA r : Ok(sofar.val @@ (name :> r.val), r.rest)))

\* loaded_from_build
parse_build(s, main) ==
    IF main >= 2
    THEN AndThen(next_u32(s), LAMBDA b : Ok(Build32(b.val), b.rest))
    ELSE AndThen(next_u16(s), LAMBDA b : Ok(Build16(b.val), b.rest))

\* The bytes skipped after allowed_commands, the mod count, the Vec for the mods
parse_num_mods(s, main) ==
    AndThen(IF main >= 2 THEN skip_bytes(s, 0) ELSE Ok(<<>>, s), LAMBDA skipped :
    AndThen(next_u32_optim(skipped.rest), LAMBDA num_mods :
        IF ~VecWithCapacity(num_mods.val) THEN Abort ELSE num_mods))

\* The bytes skipped after allowed_commands, the mod count, the mods
parse_mod_section(s, main) ==
    AndThen(parse_num_mods(s, main), LAMBDA num_mods :
        parse_mods(num_mods.rest, num_mods.val, 0, <<>>))

\* SaveHeader::try_from from loaded_from_build on
SaveHeader_from_build(h) ==
    LET main == h.val.factorio_version.main
        parse_build_of(s) == parse_build(s, main)
        parse_mod_section_of(s) == parse_mod_section(s, main)
        h15 == Field(h, "loaded_from_build", parse_build_of)
        h16 == Field(h15, "allowed_commands", parse_bool)
    IN  Field(h16, "mods", parse_mod_section_of)

\* SaveHeader::try_from from factorio_version to loaded_from
SaveHeader_fields(in) ==
    LET h0 == Ok(<<>>, in)
        h1 == Field(h0, "factorio_version", parse_version)
        h2 == Field(h1, "unused", parse_bool)
        h3 == Field(h2, "campaign", parse_string_saveheader)
        h4 == Field(h3, "name", parse_string_saveheader)
        h5 == Field(h4, "base_mod", parse_string_saveheader)
        h6 == Field(h5, "difficulty", next_u8)
        h7 == Field(h6, "finished", parse_bool)
        h8 == Field(h7, "player_won", parse_bool)
        h9 == Field(h8, "next_level", parse_string_saveheader)
        h10 == Field(h9, "can_continue", parse_bool)
        h11 == Field(h10, "finished_but_continuing", parse_bool)
        h12 == Field(h11, "saving_replay", parse_bool)
        h13 == Field(h12, "allow_non_admin_debug_options", parse_bool)
    IN  Field(h13, "loaded_from", parse_version48)

\* impl TryFrom<&[u8]> for SaveHeader
SaveHeader_try_from(in) ==
    AndThen(AndThen(SaveHeader_fields(in), SaveHeader_from_build), LAMBDA h :
        Returned([f \in DOMAIN h.val \ {"unused"} |-> h.val[f]]))

(***************************************************************************)
(* The buffers the decoders are run on.  They are written out byte by byte *)
(* from the file layout, independently of the Serialiser above, and        *)
(* include what the Serialiser never writes: a set flag byte after a       *)
(* discriminator, booleans other than 0 and 1, an empty string with a      *)
(* length, a short length behind the 0xFF sentinel, the three sections in  *)
(* another order, further keys, a missing section.                         *)
(***************************************************************************)
RECURSIVE Concat(_)
Concat(ss) == IF ss = <<>> THEN <<>> ELSE Head(ss) \o Concat(Tail(ss))

\* A property-tree string: the empty flag, the length, the bytes
WStr(s) == IF s = <<>> THEN <<1>> ELSE <<0, Len(s)>> \o s

\* The same string with its length behind the sentinel
WStrLong(s) == <<0, 255, Len(s), 0, 0, 0>> \o s

WList(items) ==
    <<4, 0, Len(items), 0, 0, 0>> \o Concat([i \in 1..Len(items) |-> <<1>> \o items[i]])

WDict(flag, pairs) ==
    <<5, flag, Len(pairs), 0, 0, 0>>
        \o Concat([i \in 1..Len(pairs) |-> pairs[i][1] \o pairs[i][2]])

\* Version 1.1.110.0 and the false sentinel
WHead == <<1, 0, 1, 0, 110, 0, 0, 0, 0>>

\* "ab", "x"
StrAb == <<97, 98>>

StrX == <<120>>

\* Another set of nine head bytes: version 258.2.0.65535
WHead2 == <<2, 1, 2, 0, 0, 0, 255, 255, 0>>

\* The three sections in the Serialiser's order, plain values
SeedPlain ==
    WHead \o WDict(0, << <<WStr(KeyStartup), <<0, 0>> >>,
                         <<WStr(KeyRuntimeGlobal), <<1, 0, 1>> >>,
                         <<WStr(KeyRuntimePerUser), <<3, 0>> \o WStr(StrAb)>> >>)

\* Another order, a fourth key, set flag bytes, a boolean of 2, a number, nested
\* list and dictionary, an empty string with a length, a sentinel length
SeedMixed ==
    WHead2 \o WDict(1, <<
        <<WStrLong(KeyRuntimePerUser),
          WList(<< <<0, 1>>, <<1, 0, 2>>, <<3, 0, 0, 0>>,
                   <<2, 0, 1, 2, 3, 4, 5, 6, 7, 8>> >>)>>,
        <<WStr(StrX), <<1, 0, 1>> >>,
        <<WStr(KeyStartup),
          WDict(0, << <<WStr(StrAb), <<1, 1, 0>> >>, <<WStr(StrX), WList(<<>>)>> >>)>>,
        <<WStr(KeyRuntimeGlobal), <<3, 0>> \o WStrLong(StrX)>> >>)

\* A section given twice
SeedTwice ==
    WHead \o WDict(0, << <<WStr(KeyStartup), <<1, 0, 0>> >>,
                         <<WStr(KeyRuntimeGlobal), <<0, 0>> >>,
                         <<WStr(KeyRuntimePerUser), <<0, 0>> >>,
                         <<WStr(KeyStartup), <<1, 0, 1>> >> >>)

\* Every section given more than once: runtime-global three times in a row,
\* runtime-per-user and startup twice, a further key twice
SeedThrice ==
    WHead2 \o WDict(0, << <<WStr(KeyRuntimeGlobal), <<1, 0, 1>> >>,
                          <<WStr(KeyRuntimeGlobal), <<0, 0>> >>,
                          <<WStr(KeyRuntimeGlobal), <<3, 0>> \o WStr(StrAb)>>,
                          <<WStr(StrX), <<0, 0>> >>,
                          <<WStr(KeyRuntimePerUser), WList(<< <<0, 0>> >>)>>,
                          <<WStr(KeyStartup), <<3, 0>> \o WStr(StrX)>>,
                          <<WStr(StrX), <<1, 0, 1>> >>,
                          <<WStr(KeyRuntimePerUser), WList(<<>>)>>,
                          <<WStr(KeyStartup), <<0, 0>> >> >>)

\* Sections missing: the last one, the first two, the middle one, all
SeedNoPerUser ==
    WHead \o WDict(0, << <<WStr(KeyRuntimeGlobal), <<0, 0>> >>,
                         <<WStr(KeyStartup), <<0, 0>> >> >>)

SeedOnlyPerUser ==
    WHead \o WDict(0, << <<WStr(KeyRuntimePerUser), <<0, 0>> >>,
                         <<WStr(StrX), <<0, 0>> >> >>)

SeedNoGlobal ==
    WHead \o WDict(0, << <<WStr(KeyRuntimePerUser), <<0, 0>> >>,
                         <<WStr(KeyStartup), <<0, 0>> >> >>)

SeedEmptyDict == WHead \o WDict(0, <<>>)

\* A top-level tree that is no dictionary
SeedList == WHead \o WList(<< <<0, 0>> >>)

ModSettingsSeeds ==
    {SeedPlain, SeedMixed, SeedTwice, SeedThrice, SeedNoPerUser, SeedOnlyPerUser, SeedNoGlobal,
     SeedEmptyDict, SeedList}

(***************************************************************************)
(* Save headers, laid out field by field.  A case records the values its   *)
(* bytes were laid out from.                                               *)
(***************************************************************************)
\* "fp", "base"
StrFp == <<102, 112>>

StrBase == <<98, 97, 115, 101>>

\* A save-header string: the length, the bytes
WShStr(s) == <<Len(s)>> \o s

\* The fields from the unused byte to loaded_from (1.1.300, its last component
\* behind the sentinel)
WShFields ==
    <<0>> \o WShStr(StrFp) \o WShStr(<<>>) \o WShStr(StrBase)
          \o <<3, 0, 1>> \o WShStr(StrX) \o <<0, 0, 1, 0>> \o <<1, 1, 255, 44, 1>>

\* One mod: its name, its version, its crc
WShMod(name, crc) == WShStr(name) \o <<2, 0, 7>> \o crc

ShMod(name, crc) ==
    [name |-> name, version |-> [main |-> 2, major |-> 0, minor |-> 7],
     crc |-> U32(crc[1] + 256 * crc[2], crc[3] + 256 * crc[4])]

\* The i-th mod of a case: "a", "ab", ... and a crc with its top bit set
ShModName(i) == [j \in 1..i |-> 96 + j]

ShModCrc(i) == <<i, 2, 255, 128>>

\* The largest number of mods of a case
MaxMods == 2

\* A header of version main.2.0.0 whose build number takes width bytes and which
\* has the pad bytes between allowed_commands and the mod count
ShCase(main, width, pad, n) ==
    [main |-> main, width |-> width, pad |-> pad, n |-> n,
     build |-> SubSeq(<<9, 1, 2, 128>>, 1, width),
     mods |-> [i \in 1..n |-> ShMod(ShModName(i), ShModCrc(i))],
     bytes |-> <<main % 256, main \div 256, 2, 0, 0, 0, 0, 0>> \o WShFields
               \o SubSeq(<<9, 1, 2, 128>>, 1, width) \o <<1>> \o pad \o <<n>>
               \o Concat([i \in 1..n |-> WShMod(ShModName(i), ShModCrc(i))])]

ShMains == {0, 1, 2, 3, 256}

ShPads == {<<0, 0, 160, 0>>, <<255, 255, 255, 255>>, <<1, 2, 3, 4>>}

\* The cases laid out the way their version asks for
SaveHeaderCases ==
    {ShCase(m, 2, <<>>, n) : m \in {m \in ShMains : m < 2}, n \in 0..MaxMods}
    \cup {ShCase(m, 4, pad, n) : m \in {m \in ShMains : m >= 2}, pad \in ShPads,
                                 n \in 0..MaxMods}

(***************************************************************************)
(* The damaged buffers: cut short, or with one byte replaced               *)
(***************************************************************************)
MutBytes == {0, 1, 2, 6, 7, 255}

Truncations(b) == {SubSeq(b, 1, k) : k \in 0..(Len(b) - 1)}

Substitutions(b) == {[b EXCEPT ![i] = x] : i \in 1..Len(b), x \in MutBytes}

Damaged(b) == Truncations(b) \cup Substitutions(b)

RecordInputs ==
    ModSettingsSeeds
    \cup UNION {Damaged(b) : b \in {SeedPlain, SeedMixed}}
    \cup {c.bytes : c \in SaveHeaderCases}
    \cup UNION {Damaged(ShCase(m, IF m < 2 THEN 2 ELSE 4,
                               IF m < 2 THEN <<>> ELSE <<0, 0, 160, 0>>, 1).bytes) :
                m \in {1, 2}}

(***************************************************************************)
(* The values and slices the Serialiser and Deserialiser operations are    *)
(* called on directly                                                      *)
(***************************************************************************)
\* The longest slice of arbitrary bytes
MaxSliceLen == 3

SliceBytes == {0, 1, 2, 255}

RECURSIVE SeqsUpTo(_, _)
SeqsUpTo(S, n) ==
    IF n = 0 THEN {<<>>}
    ELSE LET shorter == SeqsUpTo(S, n - 1)
         IN  shorter \cup {Append(s, x) : s \in {s \in shorter : Len(s) = n - 1}, x \in S}

\* The deepest nesting of a tree around a discriminator
MaxNest == 2

BadTags == {6, 7, 255}

\* tail as the only element of k nested containers, lists and dictionaries in turn
RECURSIVE Nested(_, _)
Nested(k, tail) ==
    IF k = 0 THEN tail
    ELSE IF k % 2 = 1 THEN <<4, 0, 1, 0, 0, 0, 1>> \o Nested(k - 1, tail)
    ELSE <<5, 0, 1, 0, 0, 0>> \o WStr(StrX) \o Nested(k - 1, tail)

\* What may follow a discriminator
NestTails == {<<>>, <<0>>, <<1>>, <<255>>, <<0, 0>>, <<0, 3, 0, 0, 0>>}

NestedBad == {Nested(k, <<d>> \o tl) : k \in 0..MaxNest, d \in BadTags, tl \in NestTails}

\* Buffers long enough for the 4- and 8-byte reads, with and without the sentinel
CursorSlices ==
    {<<255, 1, 2, 3, 4, 9>>, <<255, 255, 255, 255, 255>>, <<254, 255, 1, 0, 0, 0>>,
     <<1, 2, 3, 4, 5, 6, 7, 8, 9>>}

UnitSlices == SeqsUpTo(SliceBytes, MaxSliceLen) \cup NestedBad \cup CursorSlices

\* A string of n bytes: "a", "b", ... in turn, its last character U+00E9
StringOfLen(n) == [i \in 1..n |-> IF i = n - 1 /\ n > 1 THEN 195
                                  ELSE IF i = n /\ n > 1 THEN 169
                                  ELSE 97 + (i % 26)]

StringLens == {1, 2, 254, 255, 256, 300}

VersionParts == {0, 258, 65535}

Versions ==
    [main : VersionParts, major : VersionParts, minor : VersionParts,
     developer : VersionParts]

\* The f64 values 1.0 and a NaN with a payload
NumberOne == <<63, 240, 0, 0, 0, 0, 0, 0>>

NumberNaN == <<127, 248, 0, 0, 0, 0, 0, 1>>

TreeLeaves ==
    {PT_None, PT_Bool(TRUE), PT_Bool(FALSE), PT_Number(NumberOne), PT_Number(NumberNaN),
     PT_String(<<>>), PT_String(StrAb), PT_String(StringOfLen(255))}

\* The elements of the flat lists
TreeItems == {PT_None, PT_Bool(TRUE), PT_Number(NumberOne), PT_String(StrAb)}

\* The pairs of the flat dictionaries: a key with two values, and the empty key
TreePairs ==
    {<<StrAb, PT_None>>, <<StrAb, PT_Bool(TRUE)>>, <<StrX, PT_String(StrAb)>>,
     <<<<>>, PT_Number(NumberOne)>>}

\* The longest flat list or dictionary
MaxTreeWidth == 2

\* The containers put around a tree
MaxTreeDepth == 2

RECURSIVE Wrap(_, _)
\* t inside k containers, a List and a Dictionary in turn, each with a sibling
Wrap(k, t) ==
    IF k = 0 THEN t
    ELSE IF k % 2 = 1 THEN PT_List(<<PT_Bool(TRUE), Wrap(k - 1, t)>>)
    ELSE PT_Dictionary(<<<<StrX, Wrap(k - 1, t)>>, <<StrAb, PT_None>>>>)

FlatTrees ==
    TreeLeaves
        \cup {PT_List(items) : items \in SeqsUpTo(TreeItems, MaxTreeWidth)}
        \cup {PT_Dictionary(pairs) : pairs \in SeqsUpTo(TreePairs, MaxTreeWidth)}

\* The trees handed to write_property_tree; every subtree of one is one of them
Trees == {Wrap(k, t) : k \in 0..MaxTreeDepth, t \in FlatTrees}

(***************************************************************************)
(* The state machine                                                       *)
(***************************************************************************)
NoOp == [op |-> "none", n |-> 0]

\* No decode is being followed
NoRun == [pc |-> "idle"]

Init ==
    /\ heap \in {"ample", "scarce"}
    /\ \/ phase = "ready" /\ input \in RecordInputs /\ byte_slice = <<>>
       \/ phase = "unit" /\ input = <<>> /\ byte_slice \in UnitSlices
    /\ ms = NoResult
    /\ sh = NoResult
    /\ hist = <<>>
    /\ base = <<>>
    /\ last = NoOp
    /\ bytes = <<>>
    /\ arg = NoOp
    /\ run = NoRun

\* The decode/encode cycles of one behaviour
MaxCycles == 2

\* The bytes appended to an accepted buffer
MaxTrailing == 1

TrailBytes == {0, 1, 255}

\* ModSettings::try_from(input)
ModSettingsTryFrom ==
    /\ phase = "ready"
    /\ ms' = ModSettings_try_from(input)
    /\ phase' = "decoded"
    /\ UNCHANGED <<run, heap, input, sh, hist, base, byte_slice, last, bytes, arg>>

\* ms.try_into(): the caller of tests.rs serialises what it deserialised
ModSettingsTryInto ==
    /\ phase = "decoded"
    /\ ms.tag = "Ok"
    /\ base = <<>>
    /\ LET r == ModSettings_try_into(ms.val)
       IN  /\ bytes' = r.val
           /\ hist' = Append(hist, [ms |-> ms.val, bytes |-> r.val])
    /\ phase' = "encoded"
    /\ UNCHANGED <<run, heap, input, ms, sh, base, byte_slice, last, arg>>

\* The caller deserialises the bytes it got from try_into
Redecode ==
    /\ phase = "encoded"
    /\ Len(hist) < MaxCycles
    /\ input' = bytes
    /\ phase' = "ready"
    /\ ms' = NoResult
    /\ sh' = NoResult
    /\ UNCHANGED <<run, heap, hist, base, byte_slice, last, bytes, arg>>

\* The caller appends a byte to a buffer that was accepted and decodes again
AppendTrailing ==
    /\ phase = "decoded"
    /\ IF base = <<>> THEN ms.tag = "Ok" ELSE TRUE
    /\ LET b0 == IF base = <<>> THEN input ELSE base
       IN  /\ Len(input) - Len(b0) < MaxTrailing
           /\ base' = b0
    /\ \E x \in TrailBytes : input' = Append(input, x)
    /\ phase' = "ready"
    /\ ms' = NoResult
    /\ sh' = NoResult
    /\ UNCHANGED <<run, heap, hist, byte_slice, last, bytes, arg>>

\* SaveHeader::try_from(input)
SaveHeaderTryFrom ==
    /\ phase = "ready"
    /\ sh = NoResult
    /\ sh' = SaveHeader_try_from(input)
    /\ UNCHANGED <<run, heap, input, phase, ms, hist, base, byte_slice, last, bytes, arg>>

\* The operations called on one Deserialiser
MaxOps == 2

\* One Deserialiser operation on a live Deserialiser: after an error the caller
\* returns and the Deserialiser is gone
Deser(op, r) ==
    /\ phase = "unit"
    /\ IF last.op = "none" THEN TRUE ELSE last.res.tag = "Ok"
    /\ last.n < MaxOps
    /\ last' = [op |-> op, n |-> last.n + 1, res |-> r, before |-> byte_slice]
    /\ byte_slice' = IF r.tag = "Ok" THEN r.rest ELSE byte_slice
    /\ UNCHANGED <<run, heap, input, phase, ms, sh, hist, base, bytes, arg>>

Do_peek_u8 == Deser("peek_u8", peek_u8(byte_slice))

Do_next_u8 == Deser("next_u8", next_u8(byte_slice))

Do_next_u16 == Deser("next_u16", next_u16(byte_slice))

Do_next_u16_optim == Deser("next_u16_optim", next_u16_optim(byte_slice))

Do_next_u32 == Deser("next_u32", next_u32(byte_slice))

Do_next_u32_optim == Deser("next_u32_optim", next_u32_optim(byte_slice))

Do_parse_bool == Deser("parse_bool", parse_bool(byte_slice))

Do_parse_double == Deser("parse_double", parse_double(byte_slice))

Do_parse_string == Deser("parse_string", parse_string(byte_slice))

Do_parse_string_saveheader ==
    Deser("parse_string_saveheader", parse_string_saveheader(byte_slice))

Do_parse_version == Deser("parse_version", parse_version(byte_slice))

Do_parse_version48 == Deser("parse_version48", parse_version48(byte_slice))

Do_parse_property_tree == Deser("parse_property_tree", parse_property_tree(byte_slice))

\* Serialiser::new() and one write_string
Do_write_string ==
    /\ phase = "unit"
    /\ byte_slice = <<>> /\ last = NoOp /\ arg = NoOp
    /\ \E n \in StringLens \cup {0} :
          /\ arg' = [op |-> "write_string", v |-> StringOfLen(n)]
          /\ bytes' = write_string(<<>>, StringOfLen(n))
    /\ UNCHANGED <<run, heap, input, phase, ms, sh, hist, base, byte_slice, last>>

\* Serialiser::new() and write_version(u64::from(version))
Do_write_version ==
    /\ phase = "unit"
    /\ byte_slice = <<>> /\ last = NoOp /\ arg = NoOp
    /\ \E v \in Versions :
          LET packed == u64_from_Version(v)
          IN  /\ arg' = [op |-> "write_version", v |-> v, packed |-> packed]
              /\ bytes' = write_version(<<>>, packed)
    /\ UNCHANGED <<run, heap, input, phase, ms, sh, hist, base, byte_slice, last>>

\* Deserialiser { byte_slice: &bytes } over what the Serialiser wrote
Reread ==
    /\ phase = "unit"
    /\ arg # NoOp /\ last = NoOp /\ byte_slice = <<>> /\ bytes # <<>>
    /\ byte_slice' = bytes
    /\ last' = [op |-> "new", n |-> 0, res |-> Ok(<<>>, bytes), before |-> bytes]
    /\ UNCHANGED <<run, heap, input, phase, ms, sh, hist, base, bytes, arg>>

\* Serialiser::new() and write_property_tree(value)
Do_write_property_tree ==
    /\ phase = "unit"
    /\ byte_slice = <<>> /\ last = NoOp /\ arg = NoOp
    /\ \E value \in Trees :
          /\ arg' = [op |-> "write_property_tree", v |-> value]
          /\ bytes' = write_property_tree(<<>>, value)
    /\ phase' = "tree"
    /\ UNCHANGED <<run, heap, input, ms, sh, hist, base, byte_slice, last>>

\* Deserialiser { byte_slice: &bytes } and parse_property_tree() over what
\* write_property_tree wrote
ReparseTree ==
    /\ phase = "tree"
    /\ last = NoOp
    /\ LET r == parse_property_tree(bytes)
       IN  /\ last' = [op |-> "parse_property_tree", n |-> 1, res |-> r, before |-> bytes]
           /\ byte_slice' = IF r.tag = "Ok" THEN r.rest ELSE byte_slice
    /\ UNCHANGED <<run, heap, input, phase, ms, sh, hist, base, bytes, arg>>

Next ==
    \/ ModSettingsTryFrom
    \/ ModSettingsTryInto
    \/ Redecode
    \/ AppendTrailing
    \/ SaveHeaderTryFrom
    \/ Do_peek_u8
    \/ Do_next_u8
    \/ Do_next_u16
    \/ Do_next_u16_optim
    \/ Do_next_u32
    \/ Do_next_u32_optim
    \/ Do_parse_bool
    \/ Do_parse_double
    \/ Do_parse_string
    \/ Do_parse_string_saveheader
    \/ Do_parse_version
    \/ Do_parse_version48
    \/ Do_parse_property_tree
    \/ Do_write_string
    \/ Do_write_version
    \/ Reread
    \/ Do_write_property_tree
    \/ ReparseTree

Spec == Init /\ [][Next]_vars

(***************************************************************************)
(* The decoders followed step by step: one step per call of                *)
(* parse_property_tree and per iteration of the List, Dictionary and mod   *)
(* loops.  run.stack holds a frame per loop that is running, innermost     *)
(* last; run.iters counts the iterations that got past their first read.   *)
(***************************************************************************)
StartRun(kind) ==
    [pc |-> IF kind = "tree" THEN "call" ELSE "header", kind |-> kind, stack |-> <<>>,
     iters |-> 0, steps |-> 0, result |-> NoResult, head |-> <<>>]

\* The decode ends with r
Finish(r) == [run EXCEPT !.pc = "done", !.result = r, !.steps = @ + 1]

\* The ? operator in a step: an error, a panic or an abort ends the decode
Outcome(r, K(_)) ==
    IF r.tag # "Ok" THEN [run |-> Finish(r), cursor |-> byte_slice] ELSE K(r)

\* let mut list = Vec::with_capacity(len as usize): the loop is entered
Pushed(kind, len) ==
    [run EXCEPT !.pc = "loop", !.steps = @ + 1,
                !.stack = Append(@, [kind |-> kind, len |-> len, i |-> 0, acc |-> <<>>,
                                     key |-> <<>>])]

\* parse_property_tree returns v to the loop that called it (list.push(..),
\* dict.push((key, ..))), or to the caller of the decode
Delivered(stack, v, rest) ==
    IF stack = <<>>
    THEN [run EXCEPT !.pc = "done", !.stack = <<>>, !.result = Ok(v, rest), !.steps = @ + 1]
    ELSE [run EXCEPT !.pc = "loop", !.steps = @ + 1,
                     !.stack = [stack EXCEPT ![Len(stack)] =
                                   [@ EXCEPT !.i = @ + 1,
                                             !.acc = Append(@, IF stack[Len(stack)].kind = "List"
                                                               THEN v
                                                               ELSE <<stack[Len(stack)].key, v>>)]]]

\* One call of parse_property_tree up to its return or to the head of its loop
EnterTreeOutcome ==
    Outcome(next_u8(byte_slice), LAMBDA type_u8 :
    Outcome(parse_bool(type_u8.rest), LAMBDA flag :
    Outcome(PropertyTreeType_try_from(type_u8.val), LAMBDA type :
        IF type.val \in {"List", "Dictionary"}
        THEN Outcome(next_u32(flag.rest), LAMBDA len :
                 IF ~VecWithCapacity(len.val)
                 THEN [run |-> Finish(Abort), cursor |-> byte_slice]
                 ELSE [run |-> Pushed(type.val, len.val), cursor |-> len.rest])
        ELSE Outcome(parse_property_tree_arm(type.val, flag.rest), LAMBDA leaf :
                 [run |-> Delivered(run.stack, leaf.val, leaf.rest), cursor |-> leaf.rest]))))

EnterTree ==
    /\ phase = "steps"
    /\ run.pc = "call"
    /\ \E o \in {EnterTreeOutcome} : run' = o.run /\ byte_slice' = o.cursor
    /\ UNCHANGED <<heap, input, phase, ms, sh, hist, base, last, bytes, arg>>

\* The innermost loop that is running
TopFrame == run.stack[Len(run.stack)]

\* An iteration of for _ in 0..len of a List or a Dictionary: the label or
\* the key is read, the element is next
LoopNextOutcome ==
    Outcome(parse_string(byte_slice), LAMBDA key :
        [run |-> [run EXCEPT !.pc = "call", !.iters = @ + 1, !.steps = @ + 1,
                             !.stack = [@ EXCEPT ![Len(@)] = [@ EXCEPT !.key = key.val]]],
         cursor |-> key.rest])

LoopNext ==
    /\ phase = "steps"
    /\ run.pc = "loop"
    /\ TopFrame.kind \in {"List", "Dictionary"}
    /\ LessThanU32(TopFrame.i, TopFrame.len)
    /\ \E o \in {LoopNextOutcome} : run' = o.run /\ byte_slice' = o.cursor
    /\ UNCHANGED <<heap, input, phase, ms, sh, hist, base, last, bytes, arg>>

\* The range 0..len is exhausted: Ok(PropertyTree::List(list)) or
\* Ok(PropertyTree::Dictionary(dict))
LoopExit ==
    /\ phase = "steps"
    /\ run.pc = "loop"
    /\ TopFrame.kind \in {"List", "Dictionary"}
    /\ ~LessThanU32(TopFrame.i, TopFrame.len)
    /\ run' = Delivered(SubSeq(run.stack, 1, Len(run.stack) - 1),
                        IF TopFrame.kind = "List" THEN PT_List(TopFrame.acc)
                        ELSE PT_Dictionary(TopFrame.acc),
                        byte_slice)
    /\ UNCHANGED <<heap, input, phase, ms, sh, hist, base, byte_slice, last, bytes, arg>>

\* SaveHeader::try_from up to the head of the mod loop
BeginHeaderOutcome ==
    Outcome(SaveHeader_fields(byte_slice), LAMBDA h :
    Outcome(Field(Field(h, "loaded_from_build",
                        LAMBDA s : parse_build(s, h.val.factorio_version.main)),
                  "allowed_commands", parse_bool), LAMBDA h16 :
    Outcome(parse_num_mods(h16.rest, h.val.factorio_version.main), LAMBDA num_mods :
        [run |-> [Pushed("Mods", num_mods.val) EXCEPT !.head = h16.val],
         cursor |-> num_mods.rest])))

BeginHeader ==
    /\ phase = "steps"
    /\ run.pc = "header"
    /\ \E o \in {BeginHeaderOutcome} : run' = o.run /\ byte_slice' = o.cursor
    /\ UNCHANGED <<heap, input, phase, ms, sh, hist, base, last, bytes, arg>>

\* An iteration of for _ in 0..num_mods: mods.push(SaveHeaderMod { .. })
ModsNextOutcome ==
    Outcome(parse_string_saveheader(byte_slice), LAMBDA name :
    Outcome(parse_version48(name.rest), LAMBDA version :
    Outcome(next_u32(version.rest), LAMBDA crc :
        [run |-> [run EXCEPT !.iters = @ + 1, !.steps = @ + 1,
                             !.stack = [@ EXCEPT ![Len(@)] =
                                 [@ EXCEPT !.i = @ + 1,
                                           !.acc = Append(@, [name |-> name.val,
                                                              version |-> version.val,
                                                              crc |-> crc.val])]]],
         cursor |-> crc.rest])))

ModsNext ==
    /\ phase = "steps"
    /\ run.pc = "loop"
    /\ TopFrame.kind = "Mods"
    /\ LessThanU32(TopFrame.i, TopFrame.len)
    /\ \E o \in {ModsNextOutcome} : run' = o.run /\ byte_slice' = o.cursor
    /\ UNCHANGED <<heap, input, phase, ms, sh, hist, base, last, bytes, arg>>

\* The range 0..num_mods is exhausted: Ok(SaveHeader { .. })
ModsExit ==
    /\ phase = "steps"
    /\ run.pc = "loop"
    /\ TopFrame.kind = "Mods"
    /\ ~LessThanU32(TopFrame.i, TopFrame.len)
    /\ run' = [Finish(Returned([f \in (DOMAIN run.head \cup {"mods"}) \ {"unused"} |->
                                   IF f = "mods" THEN TopFrame.acc ELSE run.head[f]]))
                  EXCEPT !.stack = <<>>]
    /\ UNCHANGED <<heap, input, phase, ms, sh, hist, base, byte_slice, last, bytes, arg>>

\* A count of 2^32 - 1, one of 3, one of 2^26
StepCounts == {<<255, 255, 255, 255>>, <<3, 0, 0, 0>>, <<0, 0, 0, 4>>}

\* A List or a Dictionary that declares cnt elements and has k of them, each an
\* empty label or key and a None
StepShort(d, cnt, k) == <<d, 0>> \o cnt \o Concat([i \in 1..k |-> <<1, 0, 0>>])

\* Trees as written by the Serialiser, and trees that declare more than they hold
StepTrees ==
    {write_property_tree(<<>>, t) : t \in Trees}
        \cup {Nested(n, StepShort(d, cnt, k)) :
                 n \in 0..MaxNest, d \in {4, 5}, cnt \in StepCounts, k \in 0..MaxTreeWidth}

\* A header that declares 2^32 - 1 mods behind the sentinel and has those of c
ShOverCount(c) ==
    SubSeq(c.bytes, 1, Len(c.bytes) - Len(Concat([i \in 1..c.n |->
                                                    WShMod(ShModName(i), ShModCrc(i))])) - 1)
        \o <<255, 255, 255, 255, 255>>
        \o Concat([i \in 1..c.n |-> WShMod(ShModName(i), ShModCrc(i))])

\* Headers as laid out, headers that declare more mods than they hold, headers
\* cut inside the crc of their last mod
StepHeaders ==
    {c.bytes : c \in SaveHeaderCases}
        \cup {ShOverCount(c) : c \in SaveHeaderCases}
        \cup {SubSeq(c.bytes, 1, Len(c.bytes) - 2) : c \in {c \in SaveHeaderCases : c.n > 0}}

InitSteps ==
    /\ heap \in {"ample", "scarce"}
    /\ phase = "steps"
    /\ \/ input \in StepTrees /\ run = StartRun("tree")
       \/ input \in StepHeaders /\ run = StartRun("header")
    /\ byte_slice = input
    /\ ms = NoResult
    /\ sh = NoResult
    /\ hist = <<>>
    /\ base = <<>>
    /\ last = NoOp
    /\ bytes = <<>>
    /\ arg = NoOp

NextSteps ==
    \/ EnterTree
    \/ LoopNext
    \/ LoopExit
    \/ BeginHeader
    \/ ModsNext
    \/ ModsExit

SpecSteps == InitSteps /\ [][NextSteps]_vars

(***************************************************************************)
(* Properties                                                              *)
(***************************************************************************)
IsStrictPrefix(a, b) == Len(a) < Len(b) /\ a = SubSeq(b, 1, Len(a))

\* An error of the kinds a read past the end is to give
CleanFailure(r) == r.tag = "Err" /\ r.err \in {"ByteSlicingError", "Eof"}

\* The bytes a fixed-width read needs
ReadWidth(op) ==
    CASE op = "next_u16" -> 2
      [] op = "next_u32" -> 4
      [] op = "parse_double" -> 8

\* C1: when the caller decodes the bytes b2 that try_into gave for an accepted
\* buffer, the decode succeeds with a ModSettings equal to the one b2 was encoded
\* from, and encoding again gives b2 byte for byte.
C1_RoundTripStable ==
    /\ (phase = "decoded" /\ base = <<>> /\ Len(hist) >= 1)
          => /\ input = hist[Len(hist)].bytes
             /\ ms.tag = "Ok"
             /\ ms.val = hist[Len(hist)].ms
    /\ \A i \in 2..Len(hist) :
          /\ hist[i].bytes = hist[i - 1].bytes
          /\ hist[i].ms = hist[i - 1].ms

\* Two cycles are done on a buffer that had its sections in another order, with a
\* nested dictionary and a list holding a number.
C1_Witness ==
    /\ Len(hist) = 2
    /\ hist[1].ms.startup.t = "Dictionary"
    /\ hist[1].ms.runtime_per_user.t = "List"
    /\ \E i \in 1..Len(hist[1].ms.runtime_per_user.items) :
          hist[1].ms.runtime_per_user.items[i].t = "Number"

\* C2: decoding a buffer that ends before a field is complete ends with a slicing
\* or an Eof error, for ModSettings, for SaveHeader and for each fixed-width read;
\* no decode panics.
C2_TruncatedFailsCleanly ==
    /\ ms.tag # "Panic"
    /\ sh.tag # "Panic"
    /\ (phase = "decoded" /\ (IsStrictPrefix(input, SeedPlain)
                              \/ IsStrictPrefix(input, SeedMixed)))
          => CleanFailure(ms)
    /\ (sh.tag # "None" /\ IsStrictPrefix(input, ShCase(2, 4, <<0, 0, 160, 0>>, 1).bytes))
          => CleanFailure(sh)
    /\ (phase = "unit" /\ last.op \in {"next_u16", "next_u32", "parse_double"})
          => (Len(last.before) < ReadWidth(last.op) => CleanFailure(last.res))
    /\ (phase = "unit" /\ last.op \in {"parse_string", "parse_string_saveheader"})
          => last.res.tag # "Panic"

\* C3: parse_bool consumes exactly one byte and returns true if and only if that
\* byte is 1.
C3_BoolTrueIffOne ==
    (phase = "unit" /\ last.op = "parse_bool" /\ last.res.tag = "Ok")
        => /\ byte_slice = SliceFrom(last.before, 1)
           /\ last.res.val = (last.before[1] = 1)

\* The places of the discriminator bytes of SeedPlain: the top-level dictionary
\* and its three values
SeedPlainTags == {10, 25, 43, 64}

\* C4: a tree whose discriminator is 6 or above, at the top or inside
\* lists and dictionaries, fails to decode with OutOfRange whatever follows the
\* discriminator, also when nothing follows it.
C4_BadTagOutOfRange ==
    /\ (phase = "unit" /\ last.op = "parse_property_tree" /\ last.before \in NestedBad)
          => last.res = Err("OutOfRange")
    /\ (phase = "decoded"
        /\ \E p \in SeedPlainTags, d \in BadTags : input = [SeedPlain EXCEPT ![p] = d])
          => ms = Err("OutOfRange")

\* C5: a buffer made of an accepted buffer and further bytes is refused with
\* TrailingBytes, and a buffer is accepted only if its top-level tree ends where
\* the buffer ends.
C5_TrailingBytesRefused ==
    /\ (phase = "decoded" /\ base # <<>>) => ms = Err("TrailingBytes")
    /\ (phase = "decoded" /\ ms.tag = "Ok")
          => parse_property_tree(SliceFrom(input, 9)).rest = <<>>

\* A byte was appended to an accepted buffer, which was decoded again.
C5_Witness ==
    /\ phase = "decoded"
    /\ base = SeedMixed
    /\ input = Append(base, 255)

\* The top-level tree of the buffer, read after the version and the sentinel
TopLevelTree == parse_property_tree(SliceFrom(input, 9))

TopLevelKeys == {TopLevelTree.val.pairs[i][1] : i \in 1..Len(TopLevelTree.val.pairs)}

\* C6: when the top-level tree is a dictionary without one of the three keys the
\* decode fails with the Syntax error that names the first missing one, in the
\* order startup, runtime-global, runtime-per-user.
C6_MissingSectionNamed ==
    (/\ phase = "decoded"
     /\ Len(input) >= 9
     /\ input[9] = 0
     /\ TopLevelTree.tag = "Ok"
     /\ TopLevelTree.val.t = "Dictionary"
     /\ {KeyStartup, KeyRuntimeGlobal, KeyRuntimePerUser} \ TopLevelKeys # {})
        => ms = IF KeyStartup \notin TopLevelKeys
                THEN Syntax("Settings section 'startup' missing")
                ELSE IF KeyRuntimeGlobal \notin TopLevelKeys
                THEN Syntax("Settings section 'runtime-global' missing")
                ELSE Syntax("Settings section 'runtime-per-user' missing")

\* A dictionary without runtime-per-user only was decoded.
C6_Witness ==
    /\ phase = "decoded"
    /\ input = SeedNoPerUser
    /\ ms = Syntax("Settings section 'runtime-per-user' missing")

\* C7: a header whose main version is below 2 has a 16-bit build number and its
\* mod count right after allowed_commands; one whose main version is 2 or more
\* has a 32-bit build number and four bytes, of any value, before the mod count.
C7_BuildWidthAndPadding ==
    \A c \in SaveHeaderCases :
        (sh.tag # "None" /\ input = c.bytes)
            => /\ sh.tag = "Ok"
               /\ sh.val.factorio_version.main = c.main
               /\ sh.val.loaded_from_build.tag = IF c.main < 2 THEN "Build16" ELSE "Build32"
               /\ sh.val.loaded_from_build.v =
                     IF c.main < 2 THEN c.build[1] + 256 * c.build[2]
                     ELSE U32(c.build[1] + 256 * c.build[2], c.build[3] + 256 * c.build[4])
               /\ sh.val.allowed_commands
               /\ sh.val.mods = c.mods

\* A 2.x header with four 0xFF bytes before its two mods, and a 1.x header with
\* two mods, were decoded.
C7_Witness ==
    /\ sh.tag = "Ok"
    /\ Len(sh.val.mods) = 2
    /\ \/ input = ShCase(2, 4, <<255, 255, 255, 255>>, 2).bytes
       \/ input = ShCase(1, 2, <<>>, 2).bytes

\* C8: write_string writes a non-empty string of n bytes as 0x00, then n in one
\* byte when n < 255 or 0xFF and n in four little-endian bytes otherwise, then the
\* bytes of the string; parse_string on these bytes returns the string and
\* leaves nothing.
C8_StringCodec ==
    (phase = "unit" /\ arg.op = "write_string" /\ arg.v # <<>>)
        => /\ bytes = (IF Len(arg.v) < 255
                       THEN <<0, Len(arg.v)>>
                       ELSE <<0, 255, Len(arg.v) % 256, (Len(arg.v) \div 256) % 256,
                              (Len(arg.v) \div 65536) % 256, 0>>) \o arg.v
           /\ (Len(arg.v) = 254 => SubSeq(bytes, 1, 2) = <<0, 254>>)
           /\ (Len(arg.v) = 300 => SubSeq(bytes, 1, 6) = <<0, 255, 44, 1, 0, 0>>)
           /\ (last.op = "parse_string" /\ last.n = 1 /\ last.before = bytes)
                 => /\ last.res = Ok(arg.v, <<>>)
                    /\ byte_slice = <<>>

\* A string of 255 bytes was written and read back.
C8_Witness ==
    /\ phase = "unit"
    /\ arg.op = "write_string"
    /\ Len(arg.v) = 255
    /\ last.op = "parse_string"
    /\ last.before = bytes
    /\ last.res.tag = "Ok"

\* C9: what try_into returns is the version in eight bytes, 0x00, and a
\* dictionary of exactly three pairs, startup, runtime-global, runtime-per-user
\* in this order, each holding the section of the ModSettings, whatever the order
\* and the further keys of the buffer the ModSettings was decoded from.
C9_EncodedLayout ==
    phase = "encoded"
        => LET v == hist[Len(hist)].ms
           IN  bytes = <<v.version.main % 256, v.version.main \div 256,
                         v.version.major % 256, v.version.major \div 256,
                         v.version.minor % 256, v.version.minor \div 256,
                         v.version.developer % 256, v.version.developer \div 256>>
                       \o <<0>>
                       \o <<5, 0, 3, 0, 0, 0>>
                       \o <<0, 7>> \o KeyStartup
                       \o write_property_tree(<<>>, v.startup)
                       \o <<0, 14>> \o KeyRuntimeGlobal
                       \o write_property_tree(<<>>, v.runtime_global)
                       \o <<0, 16>> \o KeyRuntimePerUser
                       \o write_property_tree(<<>>, v.runtime_per_user)

\* The ModSettings decoded from the buffer with another order and a fourth key
\* was encoded.
C9_Witness ==
    /\ phase = "encoded"
    /\ input = SeedMixed
    /\ Len(hist) = 1

\* C10: the packed version has developer, minor, major, main as its four 16-bit
\* digits from the lowest up, which is main*2^48 + major*2^32 + minor*2^16 +
\* developer; write_version writes main, major, minor, developer, each in two
\* little-endian bytes; parse_version on these bytes returns the version.
C10_VersionPacking ==
    (phase = "unit" /\ arg.op = "write_version")
        => /\ arg.packed = <<arg.v.developer, arg.v.minor, arg.v.major, arg.v.main>>
           /\ bytes = <<arg.v.main % 256, arg.v.main \div 256,
                        arg.v.major % 256, arg.v.major \div 256,
                        arg.v.minor % 256, arg.v.minor \div 256,
                        arg.v.developer % 256, arg.v.developer \div 256>>
           /\ (last.op = "parse_version" /\ last.n = 1 /\ last.before = bytes)
                 => /\ last.res = Ok(arg.v, <<>>)
                    /\ byte_slice = <<>>

\* A version with four different components was written and read back.
C10_Witness ==
    /\ phase = "unit"
    /\ arg.op = "write_version"
    /\ arg.v = [main |-> 258, major |-> 0, minor |-> 65535, developer |-> 258]
    /\ last.op = "parse_version"
    /\ last.before = bytes
    /\ last.res.tag = "Ok"

\* The bytes write_property_tree is to give for value, from the bytes it gives
\* for the children of value
MirrorEncoding(value) ==
    CASE value.t = "None" -> <<0, 0>>
      [] value.t = "Bool" -> <<1, 0, IF value.b THEN 1 ELSE 0>>
      [] value.t = "Number" -> <<2, 0>> \o [i \in 1..8 |-> value.d[9 - i]]
      [] value.t = "String" ->
           <<3, 0>> \o write_string(<<>>, value.s)
      [] value.t = "List" ->
           <<4, 0, Len(value.items), 0, 0, 0>>
               \o Concat([i \in 1..Len(value.items) |->
                              <<1>> \o write_property_tree(<<>>, value.items[i])])
      [] value.t = "Dictionary" ->
           <<5, 0, Len(value.pairs), 0, 0, 0>>
               \o Concat([i \in 1..Len(value.pairs) |->
                              write_string(<<>>, value.pairs[i][1])
                                  \o write_property_tree(<<>>, value.pairs[i][2])])

\* C11: the bytes written for a tree are its discriminator, the flag 0x00 and
\* its content, where a List is its count and, per element in order, the label
\* of the empty string and the bytes written for the element, and a Dictionary
\* its count and, per pair in order, the key and the bytes written for the value
\* (so the flag is 0x00 after every discriminator, the trees being closed under
\* subtrees); parse_property_tree on these bytes consumes them all and returns
\* the tree, every list and dictionary in its order, duplicate keys included.
C11_EncodeMirrorsDecode ==
    (phase = "tree" /\ arg.op = "write_property_tree")
        => /\ bytes = MirrorEncoding(arg.v)
           /\ bytes[2] = 0
           /\ last.op = "parse_property_tree"
                 => /\ last.before = bytes
                    /\ last.res = Ok(arg.v, <<>>)
                    /\ byte_slice = <<>>

\* A dictionary with the key "ab" twice, inside a list inside a dictionary, was
\* written and read back.
C11_Witness ==
    /\ phase = "tree"
    /\ arg.v = Wrap(2, PT_Dictionary(<<<<StrAb, PT_Bool(TRUE)>>, <<StrAb, PT_None>>>>))
    /\ last.op = "parse_property_tree"
    /\ last.res.tag = "Ok"

IsSuffix(a, b) == Len(a) <= Len(b) /\ a = SubSeq(b, Len(b) - Len(a) + 1, Len(b))

\* The bytes the last operation moved the read position by
Advanced == Len(last.before) - Len(byte_slice)

\* C12: after every operation of a sequence of operations on a Deserialiser the
\* unread bytes are a suffix of the bytes unread before it (the position neither
\* decreases nor passes the end); peek_u8 moves nothing and gives Eof exactly at
\* the end; a successful next_u8 or parse_bool moves the position by 1, next_u16
\* by 2, next_u32 by 4, parse_double by 8, and a successful next_u16_optim or
\* next_u32_optim by 1 when the first byte is below 255 and by 1 plus 2 or 4 when
\* it is 255.
C12_CursorAdvances ==
    (phase = "unit" /\ last.op \notin {"none", "new"})
        => /\ IsSuffix(byte_slice, last.before)
           /\ last.op = "peek_u8"
                 => /\ byte_slice = last.before
                    /\ last.res = IF last.before = <<>> THEN Err("Eof")
                                  ELSE Ok(last.before[1], last.before)
           /\ last.res.tag = "Ok"
                 => /\ last.op \in {"next_u8", "parse_bool"} => Advanced = 1
                    /\ last.op = "next_u16" => Advanced = 2
                    /\ last.op = "next_u32" => Advanced = 4
                    /\ last.op = "parse_double" => Advanced = 8
                    /\ last.op = "next_u16_optim"
                          => Advanced = IF last.before[1] < 255 THEN 1 ELSE 3
                    /\ last.op = "next_u32_optim"
                          => Advanced = IF last.before[1] < 255 THEN 1 ELSE 5

\* After a first operation, next_u32_optim read a length behind the sentinel.
C12_Witness ==
    /\ phase = "unit"
    /\ last.op = "next_u32_optim"
    /\ last.n = 2
    /\ last.res.tag = "Ok"
    /\ last.before # <<>>
    /\ last.before[1] = 255

\* The bytes the decode has read
Consumed == Len(input) - Len(byte_slice)

\* A decode that has ended gave what the decoder gives in one call
StepsAgree ==
    run.pc = "done"
        => run.result = IF run.kind = "tree" THEN parse_property_tree(input)
                        ELSE SaveHeader_try_from(input)

\* Every iteration and every nested loop has read at least one byte, and a
\* decode that has not ended has a next step, of which there are at most twice
\* the bytes of the buffer and one
LoopsConsume ==
    /\ run.iters <= Consumed
    /\ Len(run.stack) <= Consumed
    /\ run.steps <= 2 * Len(input) + 1
    /\ run.pc # "done" => \/ run.pc \in {"call", "header"}
                          \/ run.pc = "loop" /\ run.stack # <<>>

\* C13: a decode of a buffer goes on until it ends, after at most twice the
\* bytes of the buffer and one steps, and it ends with a value or an error; the
\* iterations of the List, Dictionary and mod loops that it has made, and the
\* loops nested in one another, never outnumber the bytes read, whatever count
\* the buffer declares.
C13_DecodeEndsBounded ==
    /\ LoopsConsume
    /\ run.pc = "done" => run.result.tag \in {"Ok", "Err"}

\* The places of key in the pairs of a dictionary
Occurrences(pairs, key) == {i \in 1..Len(pairs) : pairs[i][1] = key}

\* The tree of the last pair with key
LastValue(pairs, key) ==
    pairs[CHOOSE i \in Occurrences(pairs, key) :
              \A j \in Occurrences(pairs, key) : j <= i][2]

\* C14: a buffer whose sentinel is false and whose top-level tree is a
\* dictionary that ends the buffer and has the three section keys, each once or
\* several times, decodes to a ModSettings, and each section of it is the tree of
\* the last pair with the section's key, in the order of the buffer.
C14_LastDuplicateWins ==
    (phase = "decoded" /\ Len(input) >= 9 /\ input[9] = 0)
        => \A top \in {TopLevelTree} :
              (/\ top.tag = "Ok"
               /\ top.val.t = "Dictionary"
               /\ top.rest = <<>>
               /\ \A key \in {KeyStartup, KeyRuntimeGlobal, KeyRuntimePerUser} :
                     Occurrences(top.val.pairs, key) # {})
                  => /\ ms.tag = "Ok"
                     /\ ms.val.startup = LastValue(top.val.pairs, KeyStartup)
                     /\ ms.val.runtime_global = LastValue(top.val.pairs, KeyRuntimeGlobal)
                     /\ ms.val.runtime_per_user = LastValue(top.val.pairs, KeyRuntimePerUser)

\* A buffer with runtime-global three times and the two other keys twice was
\* decoded; the sections are those given last.
C14_Witness ==
    /\ phase = "decoded"
    /\ input = SeedThrice
    /\ ms.tag = "Ok"
    /\ ms.val.runtime_global = PT_String(StrAb)
    /\ ms.val.startup = PT_None
    /\ ms.val.runtime_per_user = PT_List(<<>>)

====
